---- MODULE Spec2Model ----
(***************************************************************************)
(* Model of the reconciliation planner (plan/plan.go) of external-dns and  *)
(* of the endpoint filter pipeline exercised by                            *)
(* source/filter_source_test.go.                                           *)
(*                                                                         *)
(* An endpoint is a record [DNSName, Target, RecordType, RecordTTL,        *)
(* Labels].  A DNS name is a sequence of string chunks whose concatenation *)
(* is the name; the chunk "." is the label separator, so that suffix       *)
(* matching can fall inside a label as well as on a label boundary.        *)
(*                                                                         *)
(* The planner works on pointers ([]*endpoint.Endpoint).  The lists        *)
(* Desired and Current hold the objects; a change set holds references     *)
(* <<"d", i>> (the object Desired[i]) and <<"c", j>> (the object           *)
(* Current[j]), so that the in-place mutation of desired objects is seen   *)
(* through every reference.  The input lists are alias-free.               *)
(*                                                                         *)
(* Two history variables record the desired objects as they were: entry on *)
(* entry of the latest call of Calculate, orig when the plan was set up.   *)
(***************************************************************************)
EXTENDS Integers, Sequences, FiniteSets, TLC

VARIABLES Desired, Current, Policies, Changes, entry, orig,
          inner, filterCfg, filtered

vars == <<Desired, Current, Policies, Changes, entry, orig, inner, filterCfg, filtered>>

planVars == <<Desired, Current, Policies, Changes, entry, orig>>
filterVars == <<inner, filterCfg, filtered>>

(***************************************************************************)
(* Bounds of the model.                                                    *)
(***************************************************************************)
MaxDesired == 2
MaxCurrent == 2

SeqUpTo(S, n) == UNION {[1..k -> S] : k \in 0..n}

Range(s) == {s[i] : i \in 1..Len(s)}

(***************************************************************************)
(* Endpoints.                                                              *)
(***************************************************************************)
RecordTypeA == "A"
RecordTypeCNAME == "CNAME"

NoLabels == <<>>

Endpoint(name, target, type, ttl, labels) ==
    [DNSName |-> name, Target |-> target, RecordType |-> type,
     RecordTTL |-> ttl, Labels |-> labels]

\* endpoint.TTL.IsConfigured: the TTL is not the "unconfigured" sentinel.
IsConfigured(ttl) == ttl > 0

\* endpoint.Endpoint.MergeLabels: merge the given labels into the
\* endpoint's own labels; the result carries every given key/value.
MergeLabels(own, labels) ==
    [k \in (DOMAIN own) \cup (DOMAIN labels) |->
        IF k \in DOMAIN labels THEN labels[k] ELSE own[k]]

(***************************************************************************)
(* plan.go                                                                 *)
(***************************************************************************)
\* Plan.Changes before Calculate: nil.
NoChanges == [Nil |-> TRUE]

EmptyChanges == [Create |-> <<>>, UpdateOld |-> <<>>, UpdateNew |-> <<>>, Delete |-> <<>>]

\* Variant: the record type is part of the match key.
RECURSIVE recordExistsTyped(_, _, _)
recordExistsTyped(needle, haystack, k) ==
    IF k > Len(haystack) THEN 0
    ELSE IF haystack[k].DNSName = needle.DNSName
            /\ haystack[k].RecordType = needle.RecordType THEN k
    ELSE recordExistsTyped(needle, haystack, k + 1)

\* recordExists: index of the first record of haystack with the needle's
\* DNSName, 0 when there is none (nil, false).
RECURSIVE recordExistsFrom(_, _, _)
recordExistsFrom(needle, haystack, k) ==
    IF k > Len(haystack) THEN 0
    ELSE IF haystack[k].DNSName = needle.DNSName THEN k
    ELSE recordExistsFrom(needle, haystack, k + 1)

recordExists(needle, haystack) == recordExistsFrom(needle, haystack, 1)

\* Variant: a change of record type counts as a change of target.
targetOrTypeChanged(desired, current) ==
    desired.Target # current.Target \/ desired.RecordType # current.RecordType

targetChanged(desired, current) == desired.Target # current.Target

\* Variant: the "unconfigured" sentinel is not looked at.
ttlDiffers(desired, current) == desired.RecordTTL # current.RecordTTL

shouldUpdateTTL(desired, current) ==
    IF ~IsConfigured(desired.RecordTTL) THEN FALSE
    ELSE desired.RecordTTL # current.RecordTTL

\* Variant: the current record type is inherited on every update.
mergeDesiredAlwaysType(desired, current) ==
    [desired EXCEPT
        !.Labels = MergeLabels(desired.Labels, current.Labels),
        !.RecordType = current.RecordType,
        !.RecordTTL = IF ~shouldUpdateTTL(desired, current)
                      THEN current.RecordTTL ELSE @]

\* Variant: the desired TTL is never overwritten.
mergeDesiredKeepTTL(desired, current) ==
    [desired EXCEPT
        !.Labels = MergeLabels(desired.Labels, current.Labels),
        !.RecordType = IF targetChanged(desired, current)
                       THEN current.RecordType ELSE @]

\* Variant: the labels of the current record are not merged.
mergeDesiredNoLabels(desired, current) ==
    [desired EXCEPT
        !.RecordType = IF targetChanged(desired, current)
                       THEN current.RecordType ELSE @,
        !.RecordTTL = IF ~shouldUpdateTTL(desired, current)
                      THEN current.RecordTTL ELSE @]

\* Variant: the test of shouldUpdateTTL is inverted.
mergeDesiredInvertedTTL(desired, current) ==
    [desired EXCEPT
        !.Labels = MergeLabels(desired.Labels, current.Labels),
        !.RecordType = IF targetChanged(desired, current)
                       THEN current.RecordType ELSE @,
        !.RecordTTL = IF shouldUpdateTTL(desired, current)
                      THEN current.RecordTTL ELSE @]

\* The desired object after the update branch (plan.go:79-87).
mergeDesired(desired, current) ==
    [desired EXCEPT
        !.Labels = MergeLabels(desired.Labels, current.Labels),
        !.RecordType = IF targetChanged(desired, current)
                       THEN current.RecordType ELSE @,
        !.RecordTTL = IF ~shouldUpdateTTL(desired, current)
                      THEN current.RecordTTL ELSE @]

\* Variant: the old side of a pair is always the first current record.
RECURSIVE desiredLoopUnpaired(_, _, _, _)
desiredLoopUnpaired(i, desired, current, changes) ==
    IF i > Len(desired) THEN [Desired |-> desired, Changes |-> changes]
    ELSE LET d == desired[i]
             j == recordExists(d, current)
         IN IF j = 0
            THEN desiredLoopUnpaired(i + 1, desired, current,
                    [changes EXCEPT !.Create = Append(@, <<"d", i>>)])
            ELSE IF ~targetChanged(d, current[j]) /\ ~shouldUpdateTTL(d, current[j])
            THEN desiredLoopUnpaired(i + 1, desired, current, changes)
            ELSE desiredLoopUnpaired(i + 1,
                    [desired EXCEPT ![i] = mergeDesired(d, current[j])],
                    current,
                    [changes EXCEPT !.UpdateOld = Append(@, <<"c", 1>>),
                                    !.UpdateNew = Append(@, <<"d", i>>)])

\* First loop of Calculate (plan.go:58-91), from index i on.  Yields the
\* desired objects as left by the loop and the changes collected.
RECURSIVE desiredLoop(_, _, _, _)
desiredLoop(i, desired, current, changes) ==
    IF i > Len(desired) THEN [Desired |-> desired, Changes |-> changes]
    ELSE LET d == desired[i]
             j == recordExists(d, current)
         IN IF j = 0
            THEN desiredLoop(i + 1, desired, current,
                    [changes EXCEPT !.Create = Append(@, <<"d", i>>)])
            ELSE IF ~targetChanged(d, current[j]) /\ ~shouldUpdateTTL(d, current[j])
            THEN desiredLoop(i + 1, desired, current, changes)
            ELSE desiredLoop(i + 1,
                    [desired EXCEPT ![i] = mergeDesired(d, current[j])],
                    current,
                    [changes EXCEPT !.UpdateOld = Append(@, <<"c", j>>),
                                    !.UpdateNew = Append(@, <<"d", i>>)])

\* Variant: the loop stops one record early.
RECURSIVE currentLoopShort(_, _, _, _)
currentLoopShort(j, desired, current, changes) ==
    IF j >= Len(current) THEN changes
    ELSE IF recordExists(current[j], desired) = 0
    THEN currentLoopShort(j + 1, desired, current,
            [changes EXCEPT !.Delete = Append(@, <<"c", j>>)])
    ELSE currentLoopShort(j + 1, desired, current, changes)

\* Second loop of Calculate (plan.go:95-99), from index j on.
RECURSIVE currentLoop(_, _, _, _)
currentLoop(j, desired, current, changes) ==
    IF j > Len(current) THEN changes
    ELSE IF recordExists(current[j], desired) = 0
    THEN currentLoop(j + 1, desired, current,
            [changes EXCEPT !.Delete = Append(@, <<"c", j>>)])
    ELSE currentLoop(j + 1, desired, current, changes)

\* The diff before any policy is applied (plan.go:54-99).
diff(desired, current) ==
    LET r == desiredLoop(1, desired, current, EmptyChanges)
    IN [Desired |-> r.Desired,
        Changes |-> currentLoop(1, r.Desired, current, r.Changes)]

\* plan/policy.go
SyncPolicy == "sync"
UpsertOnlyPolicy == "upsert-only"

Apply(pol, changes) ==
    IF pol = UpsertOnlyPolicy
    THEN [changes EXCEPT !.Delete = <<>>]
    ELSE changes

\* Variant: only the first policy is applied.
applyFirstPolicy(pols, k, changes) ==
    IF k > Len(pols) THEN changes
    ELSE Apply(pols[k], changes)

\* Policy loop of Calculate (plan.go:102-104).
RECURSIVE applyPolicies(_, _, _)
applyPolicies(pols, k, changes) ==
    IF k > Len(pols) THEN changes
    ELSE applyPolicies(pols, k + 1, Apply(pols[k], changes))

\* Plan.Calculate on the plan (desired, current, pols).
calculate(desired, current, pols) ==
    LET r == diff(desired, current)
    IN [Desired |-> r.Desired,
        Changes |-> applyPolicies(pols, 1, r.Changes)]

Calculate ==
    /\ LET r == calculate(Desired, Current, Policies)
       IN /\ Desired' = r.Desired
          /\ Changes' = r.Changes
    /\ entry' = Desired
    /\ UNCHANGED <<Current, Policies, orig, filterVars>>

(***************************************************************************)
(* source/filter_source.go: the endpoint filter pipeline.  Names and       *)
(* targets are chunk sequences here.                                       *)
(***************************************************************************)
HasSuffix(s, suffix) ==
    /\ Len(suffix) <= Len(s)
    /\ SubSeq(s, Len(s) - Len(suffix) + 1, Len(s)) = suffix

\* The value of a decimal chunk, -1 for a chunk that is no decimal number.
Atoi(chunk) ==
    CASE chunk = "0" -> 0
      [] chunk = "1" -> 1
      [] chunk = "2" -> 2
      [] chunk = "3" -> 3
      [] chunk = "4" -> 4
      [] chunk = "10" -> 10
      [] chunk = "100" -> 100
      [] chunk = "101" -> 101
      [] chunk = "168" -> 168
      [] chunk = "192" -> 192
      [] chunk = "256" -> 256
      [] OTHER -> -1

NoIP == <<>>

\* net.ParseIP for dotted-quad literals: the four octets of the address,
\* NoIP when the target is not an IP literal.
ParseIP(target) ==
    IF /\ Len(target) = 7
       /\ \A k \in {2, 4, 6} : target[k] = "."
       /\ \A k \in {1, 3, 5, 7} : Atoi(target[k]) \in 0..255
    THEN <<Atoi(target[1]), Atoi(target[3]), Atoi(target[5]), Atoi(target[7])>>
    ELSE NoIP

\* A network [Base, Bits] as net.ParseCIDR yields it.
IPNet(a, b, c, d, bits) == [Base |-> <<a, b, c, d>>, Bits |-> bits]

\* The number of leading bits of octet k a mask of the given length covers.
MaskBits(bits, k) ==
    IF bits >= 8 * k THEN 8
    ELSE IF bits <= 8 * (k - 1) THEN 0
    ELSE bits - 8 * (k - 1)

\* net.IPNet.Contains: the address and the base agree under the mask,
\* octet by octet.
Contains(ipnet, ip) ==
    \A k \in 1..4 :
        LET host == 2 ^ (8 - MaskBits(ipnet.Bits, k))
        IN ip[k] \div host = ipnet.Base[k] \div host

\* Variant: the rule does not look at the record type.
excludedByCidrAnyType(cidrs, ep) ==
    LET ip == ParseIP(ep.Target)
    IN ip # NoIP /\ \E ipnet \in cidrs : Contains(ipnet, ip)

\* Rule 1, CIDR exclusion: an A record whose target is an IP inside one of
\* the excluded networks.
excludedByCidr(cidrs, ep) ==
    /\ ep.RecordType = RecordTypeA
    /\ LET ip == ParseIP(ep.Target)
       IN ip # NoIP /\ \E ipnet \in cidrs : Contains(ipnet, ip)

isWildcard(pattern) == Len(pattern) > 2 /\ pattern[1] = "*" /\ pattern[2] = "."

\* Variant: a wildcard matches any number of labels.
matchDNSNameDeep(pattern, name) ==
    IF isWildcard(pattern)
    THEN name # pattern /\ Len(name) > Len(pattern) - 1 /\ HasSuffix(name, Tail(pattern))
    ELSE name = pattern

\* A name against one ignore pattern, a literal name or "*.suffix".
matchDNSName(pattern, name) ==
    IF isWildcard(pattern)
    THEN LET dotSuffix == Tail(pattern)
             label == SubSeq(name, 1, Len(name) - Len(dotSuffix))
         IN /\ name # pattern
            /\ HasSuffix(name, dotSuffix)
            /\ label # <<>>
            /\ \A k \in 1..Len(label) : label[k] # "."
    ELSE name = pattern

\* Rule 2, DNS-name exclusion.
excludedByDNSName(patterns, ep) ==
    \E k \in 1..Len(patterns) : matchDNSName(patterns[k], ep.DNSName)

\* Variant: a plain suffix match.
matchDomainAnywhere(filters, name) ==
    \/ filters = <<>>
    \/ \E k \in 1..Len(filters) : HasSuffix(name, filters[k])

\* Rule 3, base-domain inclusion (provider.DomainFilter.Match): no filter,
\* or the name ends with a filter at a label boundary.
matchDomain(filters, name) ==
    \/ filters = <<>>
    \/ \E k \in 1..Len(filters) :
          /\ HasSuffix(name, filters[k])
          /\ \/ Len(name) = Len(filters[k])
             \/ name[Len(name) - Len(filters[k])] = "."

\* The loop of filterSource.Endpoints over the endpoints of the inner
\* source, from index k on.
RECURSIVE filterLoop(_, _, _, _)
filterLoop(cfg, endpoints, k, result) ==
    IF k > Len(endpoints) THEN result
    ELSE LET ep == endpoints[k]
         IN IF \/ excludedByCidr(cfg.Cidrs, ep)
               \/ excludedByDNSName(cfg.DNSIgnore, ep)
               \/ ~matchDomain(cfg.DomainFilter, ep.DNSName)
            THEN filterLoop(cfg, endpoints, k + 1, result)
            ELSE filterLoop(cfg, endpoints, k + 1, Append(result, ep))

NoResult == [Nil |-> TRUE]

\* filterSource.Endpoints: the error of the inner source unchanged and no
\* records, or the filtered records.
Endpoints ==
    /\ filtered' =
          IF inner.Err
          THEN [Endpoints |-> <<>>, Err |-> TRUE]
          ELSE [Endpoints |-> filterLoop(filterCfg, inner.Endpoints, 1, <<>>),
                Err |-> FALSE]
    /\ UNCHANGED <<inner, filterCfg, planVars>>

(***************************************************************************)
(* Inputs of the planner.  The lists are drawn from products of small      *)
(* field sets; each specification varies the fields its properties depend  *)
(* on and fixes the others.                                                *)
(***************************************************************************)
fooOrg == <<"foo", ".", "org">>
barOrg == <<"bar", ".", "org">>
bazOrg == <<"baz", ".", "org">>

TwoNames == {fooOrg, barOrg}
ThreeNames == {fooOrg, barOrg, bazOrg}
PlanTargets == {"1.2.3.4", "5.6.7.8"}
PlanTypes == {RecordTypeA, RecordTypeCNAME}
PlanTTLs == {0, 300}
OwnerLabels == [k \in {"owner"} |-> "default"]
PlanLabels == {NoLabels, OwnerLabels}

EndpointsOver(names, targets, types, ttls, labels) ==
    {Endpoint(n, t, ty, ttl, l) :
        n \in names, t \in targets, ty \in types, ttl \in ttls, l \in labels}

\* The policy the configuration selects by default (Policy: "sync").
DefaultPolicies == <<SyncPolicy>>

PolicyLists == {<<>>, <<SyncPolicy>>, <<UpsertOnlyPolicy>>,
                <<SyncPolicy, UpsertOnlyPolicy>>, <<UpsertOnlyPolicy, SyncPolicy>>}

\* No filter source is set up.
InitFilterIdle ==
    /\ inner = [Endpoints |-> <<>>, Err |-> FALSE]
    /\ filterCfg = [DomainFilter |-> <<>>, Cidrs |-> {}, DNSIgnore |-> <<>>]
    /\ filtered = NoResult

\* A plan over the endpoints of U with a policy list of P, not yet calculated.
InitPlan(U, P) ==
    /\ Desired \in SeqUpTo(U, MaxDesired)
    /\ Current \in SeqUpTo(U, MaxCurrent)
    /\ Policies \in P
    /\ Changes = NoChanges
    /\ entry = Desired
    /\ orig = Desired
    /\ InitFilterIdle

Next == Calculate

\* Targets and TTLs vary.
Init ==
    InitPlan(EndpointsOver(TwoNames, PlanTargets, {RecordTypeA}, PlanTTLs, {NoLabels}),
             {DefaultPolicies})

Spec == Init /\ [][Next]_vars

\* Names, targets and policy lists vary.
InitPolicy ==
    InitPlan(EndpointsOver(ThreeNames, PlanTargets, {RecordTypeA}, {0}, {NoLabels}),
             PolicyLists)

SpecPolicy == InitPolicy /\ [][Next]_vars

\* Record types vary, with the targets or with the targets and the TTLs.
TypeTargetSlice ==
    EndpointsOver(TwoNames, PlanTargets, PlanTypes, {300}, {NoLabels})

InitType ==
    \/ InitPlan(TypeTargetSlice, {DefaultPolicies})
    \/ InitPlan(EndpointsOver({fooOrg}, PlanTargets, PlanTypes, PlanTTLs, {NoLabels}),
                {DefaultPolicies})

SpecType == InitType /\ [][Next]_vars

\* Targets vary with two TTLs or, for one name, with three.
PlanTTLs3 == {0, 60, 300}

InitTTL ==
    \/ InitPlan(EndpointsOver(TwoNames, PlanTargets, {RecordTypeA}, PlanTTLs, {NoLabels}),
                {DefaultPolicies})
    \/ InitPlan(EndpointsOver({fooOrg}, PlanTargets, {RecordTypeA}, PlanTTLs3, {NoLabels}),
                {DefaultPolicies})

SpecTTL == InitTTL /\ [][Next]_vars

\* Labels vary with the targets: an owner label, an owner label of another
\* owner and a label under another key.
OtherOwnerLabels == [k \in {"owner"} |-> "other"]
ResourceLabels == [k \in {"resource"} |-> "ingress"]
PlanLabels4 == {NoLabels, OwnerLabels, OtherOwnerLabels, ResourceLabels}

InitLabels ==
    \/ InitPlan(EndpointsOver(TwoNames, PlanTargets, {RecordTypeA}, {0}, PlanLabels),
                {DefaultPolicies})
    \/ InitPlan(EndpointsOver({fooOrg}, PlanTargets, {RecordTypeA}, {0}, PlanLabels4),
                {DefaultPolicies})

SpecLabels == InitLabels /\ [][Next]_vars

\* For one name the targets vary with three TTLs or with the record types
\* and labels; for two names the targets vary with the policy lists.
InitRepeat ==
    \/ InitPlan(EndpointsOver({fooOrg}, PlanTargets, {RecordTypeA}, PlanTTLs3, {NoLabels}),
                {DefaultPolicies})
    \/ InitPlan(EndpointsOver({fooOrg}, PlanTargets, PlanTypes, {0}, PlanLabels),
                {DefaultPolicies})
    \/ InitPlan(EndpointsOver(TwoNames, PlanTargets, {RecordTypeA}, {0}, {NoLabels}),
                PolicyLists)

SpecRepeat == InitRepeat /\ [][Next]_vars

\* Record types and targets vary, or labels and TTLs.
InitSame ==
    \/ InitPlan(TypeTargetSlice, {DefaultPolicies})
    \/ InitPlan(EndpointsOver(TwoNames, {"1.2.3.4"}, {RecordTypeA}, PlanTTLs, PlanLabels),
                {DefaultPolicies})

SpecSame == InitSame /\ [][Next]_vars

(***************************************************************************)
(* Inputs of the filter pipeline: the names, targets, networks and         *)
(* patterns of filter_source_test.go and neighbours of them.               *)
(***************************************************************************)
MaxInner == 2

Name2(a, b) == <<a, ".", b>>
Name3(a, b, c) == <<a, ".", b, ".", c>>
Name4(a, b, c, d) == <<a, ".", b, ".", c, ".", d>>

fooExampleOrg == Name3("foo", "example", "org")
barExampleOrg == Name3("bar", "example", "org")
fooExampleCom == Name3("foo", "example", "com")
fooBarExampleCom == Name4("foo", "bar", "example", "com")
barFooExampleCom == Name4("bar", "foo", "example", "com")
starExampleCom == Name3("*", "example", "com")
exampleCom == Name2("example", "com")
\* "fooexample.com": one label that ends with "example".
fooexampleCom == <<"foo", "example", ".", "com">>
fooClusterExampleOrg == Name4("foo", "cluster", "example", "org")
clusterExampleOrg == Name3("cluster", "example", "org")
\* "foocluster.example.org": one label that ends with "cluster".
fooclusterExampleOrg == <<"foo", "cluster", ".", "example", ".", "org">>

FilterNames ==
    {fooExampleOrg, fooExampleCom, fooBarExampleCom, barFooExampleCom,
     starExampleCom, exampleCom, fooexampleCom,
     fooClusterExampleOrg, clusterExampleOrg, fooclusterExampleOrg}

target1234 == Name4("1", "2", "3", "4")
targetInside == Name4("192", "168", "100", "10")
targetOutside == Name4("192", "168", "101", "10")
targetNoOctet == Name4("192", "168", "100", "256")

FilterTargets == {target1234, targetInside, targetOutside, targetNoOctet, fooExampleCom}

testCidr == IPNet(192, 168, 100, 0, 24)
tenCidr == IPNet(10, 0, 0, 0, 8)
partCidr == IPNet(192, 168, 101, 8, 29)

CidrSets == {{}, {testCidr}, {tenCidr, partCidr}}

testDNSIgnore == <<starExampleCom, fooBarExampleCom>>

DNSIgnoreLists == {<<>>, testDNSIgnore, <<Name4("*", "foo", "example", "com"), exampleCom>>}

DomainFilters == {<<>>, <<clusterExampleOrg>>, <<exampleCom, clusterExampleOrg>>}

FilterConfig(domains, cidrs, patterns) ==
    [DomainFilter |-> domains, Cidrs |-> cidrs, DNSIgnore |-> patterns]

InitPlanIdle ==
    /\ Desired = <<>>
    /\ Current = <<>>
    /\ Policies = <<>>
    /\ Changes = NoChanges
    /\ entry = <<>>
    /\ orig = <<>>

\* A filter source over an inner source that fails or yields endpoints of U,
\* with a configuration of C, not yet asked for its endpoints.
InitFilterWith(U, C) ==
    /\ inner \in [Endpoints : SeqUpTo(U, MaxInner), Err : BOOLEAN]
    /\ inner.Err => inner.Endpoints = <<>>
    /\ filterCfg \in C
    /\ filtered = NoResult
    /\ InitPlanIdle

\* Either the types and targets vary under the CIDR configurations, or the
\* names vary under the name configurations.
InitFilter ==
    \/ InitFilterWith(
          EndpointsOver({fooExampleOrg, barExampleOrg}, FilterTargets, PlanTypes, {0}, {NoLabels}),
          {FilterConfig(<<>>, c, <<>>) : c \in CidrSets})
    \/ InitFilterWith(
          EndpointsOver(FilterNames, {target1234}, {RecordTypeA}, {0}, {NoLabels}),
          {FilterConfig(d, {}, p) : d \in DomainFilters, p \in DNSIgnoreLists})

NextFilter == Endpoints

SpecFilter == InitFilter /\ [][NextFilter]_vars

(***************************************************************************)
(* Properties of the planner.                                              *)
(***************************************************************************)
Calculated == Changes # NoChanges

\* The object a reference of a change set points to.
Deref(ref) == IF ref[1] = "d" THEN Desired[ref[2]] ELSE Current[ref[2]]

NamesOf(refs) == {Deref(refs[k]).DNSName : k \in 1..Len(refs)}

\* How often a name occurs in a sequence of references / in a list.
CountIn(refs, name) == Cardinality({k \in 1..Len(refs) : Deref(refs[k]).DNSName = name})
Occurrences(list, name) == Cardinality({k \in 1..Len(list) : list[k].DNSName = name})

DesiredNames == {Desired[i].DNSName : i \in 1..Len(Desired)}
CurrentNames == {Current[j].DNSName : j \in 1..Len(Current)}

PassThroughOnly == \A k \in 1..Len(Policies) : Policies[k] = SyncPolicy

\* The first current record carrying the name, 0 when there is none.
FirstCurrent(name) ==
    IF name \in CurrentNames
    THEN CHOOSE j \in 1..Len(Current) :
            /\ Current[j].DNSName = name
            /\ \A k \in 1..(j - 1) : Current[k].DNSName # name
    ELSE 0

\* The desired record, as it was on entry, differs from the current record
\* in its target or in a configured TTL.
Differs(d, c) ==
    \/ d.Target # c.Target
    \/ d.RecordTTL > 0 /\ d.RecordTTL # c.RecordTTL

\* C1 (as stated): with no policy or only the pass-through policy, every
\* name that occurs in current but in no desired record appears exactly
\* once in delete, and every name that occurs in desired but in no current
\* record appears exactly once in create.
C1_ExactlyOnce ==
    (Calculated /\ PassThroughOnly) =>
        /\ \A n \in CurrentNames \ DesiredNames : CountIn(Changes.Delete, n) = 1
        /\ \A n \in DesiredNames \ CurrentNames : CountIn(Changes.Create, n) = 1

\* C1 (amended): with no policy or only the pass-through policy, every name
\* that occurs in current but in no desired record appears in delete once
\* for each current record carrying it, and every name that occurs in
\* desired but in no current record appears in create once for each desired
\* record carrying it.
C1_OncePerRecord ==
    (Calculated /\ PassThroughOnly) =>
        /\ \A n \in CurrentNames \ DesiredNames :
              CountIn(Changes.Delete, n) = Occurrences(Current, n)
        /\ \A n \in DesiredNames \ CurrentNames :
              CountIn(Changes.Create, n) = Occurrences(Desired, n)

\* A name occurs twice in current and in no desired record and is deleted
\* twice, next to a name that is created.
C1_Witness ==
    /\ Calculated /\ PassThroughOnly
    /\ \E n \in CurrentNames \ DesiredNames :
          Occurrences(Current, n) = 2 /\ CountIn(Changes.Delete, n) = 2
    /\ \E n \in DesiredNames \ CurrentNames : CountIn(Changes.Create, n) = 1

\* C2 (as stated): a name present in both lists with a changed target or a
\* configured desired TTL that differs from the current TTL appears exactly
\* once, as one pair (UpdateOld[k], UpdateNew[k]) at the same index; a name
\* present in both lists with identical target and an unconfigured desired
\* TTL appears in none of create, updateOld, updateNew, delete.
C2_ExactlyOnePair ==
    Calculated =>
        \A n \in DesiredNames \cap CurrentNames :
            LET ds == {i \in 1..Len(entry) : entry[i].DNSName = n}
                c == Current[FirstCurrent(n)]
            IN /\ (\E i \in ds : Differs(entry[i], c)) =>
                      /\ CountIn(Changes.UpdateOld, n) = 1
                      /\ CountIn(Changes.UpdateNew, n) = 1
                      /\ \E k \in 1..Len(Changes.UpdateNew) :
                            /\ k <= Len(Changes.UpdateOld)
                            /\ Deref(Changes.UpdateOld[k]).DNSName = n
                            /\ Deref(Changes.UpdateNew[k]).DNSName = n
                      /\ CountIn(Changes.Create, n) = 0
                      /\ CountIn(Changes.Delete, n) = 0
               /\ (\E i \in ds : entry[i].Target = c.Target /\ entry[i].RecordTTL = 0) =>
                      /\ CountIn(Changes.UpdateOld, n) = 0
                      /\ CountIn(Changes.UpdateNew, n) = 0
                      /\ CountIn(Changes.Create, n) = 0
                      /\ CountIn(Changes.Delete, n) = 0

\* C2 (amended): every desired record whose name occurs in current is
\* compared with the first current record of that name.  If its target
\* differs, or its TTL is configured and differs, the record appears
\* exactly once in the change set, as UpdateNew[k] paired with that current
\* record as UpdateOld[k] at the same index k.  If the target is identical
\* and its TTL is unconfigured, the record appears in no sequence.  In both
\* cases its name appears neither in create nor in delete.
C2_OnePairPerRecord ==
    Calculated =>
        /\ Len(Changes.UpdateOld) = Len(Changes.UpdateNew)
        /\ \A i \in 1..Len(entry) :
            LET j == FirstCurrent(entry[i].DNSName)
                at == {k \in 1..Len(Changes.UpdateNew) : Changes.UpdateNew[k] = <<"d", i>>}
            IN j # 0 =>
                /\ Differs(entry[i], Current[j]) =>
                      /\ Cardinality(at) = 1
                      /\ \A k \in at : Changes.UpdateOld[k] = <<"c", j>>
                /\ (entry[i].Target = Current[j].Target /\ entry[i].RecordTTL = 0) =>
                      at = {}
                /\ \A k \in 1..Len(Changes.Create) : Changes.Create[k] # <<"d", i>>
                /\ CountIn(Changes.Create, entry[i].DNSName) = 0
                /\ CountIn(Changes.Delete, entry[i].DNSName) = 0

\* Of two desired records of one name, one is updated for its configured
\* TTL alone and the other, with an unconfigured TTL and the current
\* target, yields nothing.
C2_Witness ==
    /\ Calculated
    /\ Len(entry) = 2 /\ entry[1].DNSName = entry[2].DNSName
    /\ FirstCurrent(entry[1].DNSName) # 0
    /\ LET c == Current[FirstCurrent(entry[1].DNSName)]
       IN /\ entry[1].Target = c.Target
          /\ entry[1].RecordTTL > 0 /\ entry[1].RecordTTL # c.RecordTTL
          /\ entry[2].Target = c.Target /\ entry[2].RecordTTL = 0
    /\ Changes.UpdateNew = << <<"d", 1>> >>

\* The desired and the current list carry the same names and records of
\* one name agree in target and TTL.
SameState ==
    /\ {entry[i].DNSName : i \in 1..Len(entry)} = CurrentNames
    /\ \A i \in 1..Len(entry), j \in 1..Len(Current) :
          entry[i].DNSName = Current[j].DNSName =>
              /\ entry[i].Target = Current[j].Target
              /\ entry[i].RecordTTL = Current[j].RecordTTL

\* C3: if desired and current contain the same names and, for each name,
\* the desired and the current record have identical target and identical
\* TTL, then create, updateOld, updateNew and delete are all empty, also
\* when the record types or labels of the two sides differ.
C3_Idempotent ==
    (Calculated /\ SameState) =>
        /\ Changes.Create = <<>>
        /\ Changes.UpdateOld = <<>>
        /\ Changes.UpdateNew = <<>>
        /\ Changes.Delete = <<>>

\* Two names, the same on both sides with equal targets and configured
\* TTLs, and a record type that differs between the sides.
C3_Witness ==
    /\ Calculated /\ SameState
    /\ Cardinality(CurrentNames) = 2
    /\ \E i \in 1..Len(entry), j \in 1..Len(Current) :
          /\ entry[i].DNSName = Current[j].DNSName
          /\ entry[i].RecordType # Current[j].RecordType
          /\ entry[i].RecordTTL > 0

\* C4: a name that occurs in both desired and current never appears in
\* create and never appears in delete, whatever the record types and
\* targets; the names in create, the names in delete and the names in
\* updateOld/updateNew are pairwise disjoint.
C4_NameIsTheKey ==
    Calculated =>
        /\ \A n \in DesiredNames \cap CurrentNames :
              /\ n \notin NamesOf(Changes.Create)
              /\ n \notin NamesOf(Changes.Delete)
        /\ NamesOf(Changes.Create) \cap NamesOf(Changes.Delete) = {}
        /\ NamesOf(Changes.Create) \cap
              (NamesOf(Changes.UpdateOld) \cup NamesOf(Changes.UpdateNew)) = {}
        /\ NamesOf(Changes.Delete) \cap
              (NamesOf(Changes.UpdateOld) \cup NamesOf(Changes.UpdateNew)) = {}

\* A name is on both sides with different record types and targets and is
\* updated, while another name is created.
C4_Witness ==
    /\ Calculated
    /\ \E i \in 1..Len(entry), j \in 1..Len(Current) :
          /\ entry[i].DNSName = Current[j].DNSName
          /\ entry[i].RecordType # Current[j].RecordType
          /\ entry[i].Target # Current[j].Target
          /\ entry[i].DNSName \in NamesOf(Changes.UpdateNew)
    /\ Changes.Create # <<>>

\* C5: when the policy list contains the upsert-only policy, delete is
\* empty and create, updateOld and updateNew are those of the diff computed
\* before any policy was applied; with only the pass-through policy or no
\* policy the change set equals the computed diff, delete included.
C5_Policies ==
    Calculated =>
        LET computed == diff(entry, Current).Changes
        IN IF \E k \in 1..Len(Policies) : Policies[k] = UpsertOnlyPolicy
           THEN /\ Changes.Delete = <<>>
                /\ Changes.Create = computed.Create
                /\ Changes.UpdateOld = computed.UpdateOld
                /\ Changes.UpdateNew = computed.UpdateNew
           ELSE Changes = computed

\* The upsert-only policy follows a pass-through policy and suppresses a
\* deletion while a creation and an update go through.
C5_Witness ==
    /\ Calculated
    /\ Policies = <<SyncPolicy, UpsertOnlyPolicy>>
    /\ CurrentNames \ DesiredNames # {}
    /\ Changes.Delete = <<>>
    /\ Changes.Create # <<>>
    /\ Changes.UpdateNew # <<>>

\* C9: updateOld and updateNew have the same length and at every index the
\* two records have the same name, updateOld[i] being a record of the
\* current list and updateNew[i] a record of the desired list.
C9_Paired ==
    Calculated =>
        /\ Len(Changes.UpdateOld) = Len(Changes.UpdateNew)
        /\ \A k \in 1..Len(Changes.UpdateNew) :
              /\ Changes.UpdateOld[k][1] = "c"
              /\ Changes.UpdateOld[k][2] \in 1..Len(Current)
              /\ Changes.UpdateNew[k][1] = "d"
              /\ Changes.UpdateNew[k][2] \in 1..Len(Desired)
              /\ Deref(Changes.UpdateOld[k]).DNSName = Deref(Changes.UpdateNew[k]).DNSName

\* An update pair whose current record is not the first of the current
\* list, under a policy list with the upsert-only policy.
C9_Witness ==
    /\ Calculated
    /\ UpsertOnlyPolicy \in Range(Policies)
    /\ \E k \in 1..Len(Changes.UpdateNew) : Changes.UpdateOld[k] = <<"c", 2>>

\* C10: for every pair (updateOld[k], updateNew[k]), if the desired target
\* differed from the current target then updateNew[k] has the record type
\* of updateOld[k]; if the target did not differ, updateNew[k] keeps the
\* record type the desired record had on entry.
C10_RecordType ==
    Calculated =>
        \A k \in 1..Len(Changes.UpdateNew) :
            LET old == Deref(Changes.UpdateOld[k])
                new == Deref(Changes.UpdateNew[k])
                was == entry[Changes.UpdateNew[k][2]]
            IN IF was.Target # old.Target
               THEN new.RecordType = old.RecordType
               ELSE new.RecordType = was.RecordType

\* One pair inherits a record type it did not have, another pair is a
\* TTL-only update and keeps a record type the current record does not
\* have.
C10_Witness ==
    /\ Calculated
    /\ \E k \in 1..Len(Changes.UpdateNew) :
          LET old == Deref(Changes.UpdateOld[k])
              was == entry[Changes.UpdateNew[k][2]]
          IN was.Target # old.Target /\ was.RecordType # old.RecordType
    /\ \E k \in 1..Len(Changes.UpdateNew) :
          LET old == Deref(Changes.UpdateOld[k])
              new == Deref(Changes.UpdateNew[k])
              was == entry[Changes.UpdateNew[k][2]]
          IN was.Target = old.Target /\ new.RecordType # old.RecordType

\* C11: for every pair (updateOld[k], updateNew[k]), updateNew[k] has the
\* TTL the desired record had on entry when that TTL was configured and
\* different from the TTL of the current record, and the TTL of updateOld[k]
\* otherwise; a desired record with an unconfigured TTL never changes the
\* current TTL.
C11_RecordTTL ==
    Calculated =>
        \A k \in 1..Len(Changes.UpdateNew) :
            LET old == Deref(Changes.UpdateOld[k])
                new == Deref(Changes.UpdateNew[k])
                was == entry[Changes.UpdateNew[k][2]]
            IN /\ IF was.RecordTTL > 0 /\ was.RecordTTL # old.RecordTTL
                  THEN new.RecordTTL = was.RecordTTL
                  ELSE new.RecordTTL = old.RecordTTL
               /\ was.RecordTTL = 0 => new.RecordTTL = old.RecordTTL

\* One pair replaces a configured current TTL by another configured TTL,
\* another pair had an unconfigured desired TTL and took over the
\* configured current TTL.
C11_Witness ==
    /\ Calculated
    /\ \E k \in 1..Len(Changes.UpdateNew) :
          LET old == Deref(Changes.UpdateOld[k])
              new == Deref(Changes.UpdateNew[k])
              was == entry[Changes.UpdateNew[k][2]]
          IN was.RecordTTL > 0 /\ old.RecordTTL > 0 /\ was.RecordTTL # old.RecordTTL
             /\ new.RecordTTL = was.RecordTTL
    /\ \E k \in 1..Len(Changes.UpdateNew) :
          LET old == Deref(Changes.UpdateOld[k])
              new == Deref(Changes.UpdateNew[k])
              was == entry[Changes.UpdateNew[k][2]]
          IN was.RecordTTL = 0 /\ old.RecordTTL > 0 /\ new.RecordTTL = old.RecordTTL

\* The desired objects UpdateNew refers to.
Updated == {Changes.UpdateNew[k][2] : k \in 1..Len(Changes.UpdateNew)}

\* C12: for every pair (updateOld[k], updateNew[k]), every label key/value
\* of the current record updateOld[k] is present on updateNew[k] after the
\* call, updateNew[k] being the caller's own desired object, mutated in
\* place; desired records that end up in create or are skipped are not
\* mutated.
C12_LabelsPreserved ==
    Calculated =>
        /\ \A k \in 1..Len(Changes.UpdateNew) :
              LET old == Current[Changes.UpdateOld[k][2]]
                  i == Changes.UpdateNew[k][2]
              IN /\ Changes.UpdateNew[k] = <<"d", i>>
                 /\ i \in 1..Len(Desired)
                 /\ \A key \in DOMAIN old.Labels :
                       /\ key \in DOMAIN Desired[i].Labels
                       /\ Desired[i].Labels[key] = old.Labels[key]
        /\ Len(Desired) = Len(entry)
        /\ \A i \in 1..Len(Desired) : i \notin Updated => Desired[i] = entry[i]

\* A desired record that carried another owner is updated and carries the
\* owner label of the current record afterwards, next to a desired record
\* that is skipped or created.
C12_Witness ==
    /\ Calculated
    /\ \E k \in 1..Len(Changes.UpdateNew) :
          LET old == Current[Changes.UpdateOld[k][2]]
              i == Changes.UpdateNew[k][2]
          IN /\ old.Labels = OwnerLabels
             /\ entry[i].Labels = OtherOwnerLabels
             /\ Desired[i].Labels = OwnerLabels
    /\ \E i \in 1..Len(Desired) : i \notin Updated

\* C13: calling Calculate again on the same plan, with the desired records
\* as the first call left them, returns a change set equal to the one the
\* first call returned, field by field and record by record, and changes no
\* field of any desired or current record.
C13_RepeatIsStable ==
    [][Calculated =>
          /\ Changes' = Changes
          /\ Desired' = Desired
          /\ Current' = Current
          /\ Policies' = Policies]_vars

\* A second call has returned: the desired records on its entry were those
\* the first call had left, mutated, in a plan with an update.
C13_Witness ==
    /\ Calculated
    /\ entry = Desired
    /\ orig # Desired
    /\ Changes.UpdateNew # <<>>

(***************************************************************************)
(* Properties of the filter pipeline.                                      *)
(***************************************************************************)
Filtered == filtered # NoResult /\ ~inner.Err

\* The labels of a name: the chunk sequences between the separators.
RECURSIVE LabelsOf(_)
LabelsOf(name) ==
    IF \A k \in 1..Len(name) : name[k] # "."
    THEN <<name>>
    ELSE LET dot == CHOOSE k \in 1..Len(name) :
                        name[k] = "." /\ \A m \in 1..(k - 1) : name[m] # "."
         IN <<SubSeq(name, 1, dot - 1)>> \o LabelsOf(SubSeq(name, dot + 1, Len(name)))

\* The name is ignored by a pattern: "*.suffix" ignores the names that are
\* one non-empty label followed by the labels of suffix, but not the name
\* "*.suffix" itself; a literal pattern ignores the equal name.
NameIgnored(patterns, name) ==
    \E k \in 1..Len(patterns) :
        LET pl == LabelsOf(patterns[k])
            nl == LabelsOf(name)
        IN IF Len(pl) > 1 /\ pl[1] = <<"*">>
           THEN /\ name # patterns[k]
                /\ Len(nl) = Len(pl)
                /\ nl[1] # <<>>
                /\ Tail(nl) = Tail(pl)
           ELSE name = patterns[k]

FilteredNames == {filtered.Endpoints[k].DNSName : k \in 1..Len(filtered.Endpoints)}
InnerNames == {inner.Endpoints[k].DNSName : k \in 1..Len(inner.Endpoints)}

\* C6: a record is dropped by the DNS-name exclusion if and only if, for a
\* pattern "*.suffix", its name is not "*.suffix" itself, ends with
\* ".suffix" and has exactly one label before it, or, for a literal
\* pattern, its name equals the pattern.  With the patterns *.example.com
\* and foo.bar.example.com: foo.example.com and foo.bar.example.com are
\* dropped; bar.foo.example.com, *.example.com and foo.example.org are kept.
C6_DNSNameExclusion ==
    Filtered =>
        LET Kept(ep) == ~NameIgnored(filterCfg.DNSIgnore, ep.DNSName)
        IN /\ \A k \in 1..Len(filtered.Endpoints) : Kept(filtered.Endpoints[k])
           /\ (filterCfg.Cidrs = {} /\ filterCfg.DomainFilter = <<>>) =>
                 /\ filtered.Endpoints = SelectSeq(inner.Endpoints, Kept)
                 /\ filterCfg.DNSIgnore = testDNSIgnore =>
                       /\ FilteredNames \cap {fooExampleCom, fooBarExampleCom} = {}
                       /\ InnerNames \cap {barFooExampleCom, starExampleCom, fooExampleOrg}
                             \subseteq FilteredNames

\* Under the patterns of the test, foo.example.com is dropped and the
\* record named *.example.com after it is kept.
C6_Witness ==
    /\ Filtered
    /\ filterCfg = FilterConfig(<<>>, {}, testDNSIgnore)
    /\ Len(inner.Endpoints) = 2
    /\ inner.Endpoints[1].DNSName = fooExampleCom
    /\ inner.Endpoints[2].DNSName = starExampleCom
    /\ filtered.Endpoints = <<inner.Endpoints[2]>>

\* The targets that are IP literals and the networks they lie in.
IPLiterals == {target1234, targetInside, targetOutside}
InsideOf == {<<targetInside, testCidr>>, <<targetOutside, partCidr>>}

\* C7: a record is dropped by the CIDR exclusion if and only if its type is
\* A, its target parses as an IP literal and the IP lies inside at least
\* one excluded network; records of another type and A records whose
\* target is no IP are retained, and the retained records keep their order.
C7_CidrExclusion ==
    Filtered =>
        LET Kept(ep) ==
                ~ /\ ep.RecordType = "A"
                  /\ ep.Target \in IPLiterals
                  /\ \E ipnet \in filterCfg.Cidrs : <<ep.Target, ipnet>> \in InsideOf
        IN /\ \A k \in 1..Len(filtered.Endpoints) : Kept(filtered.Endpoints[k])
           /\ (filterCfg.DNSIgnore = <<>> /\ filterCfg.DomainFilter = <<>>) =>
                 filtered.Endpoints = SelectSeq(inner.Endpoints, Kept)

\* Under the network of the test, a CNAME record with a target inside the
\* network is kept and the A record with the same target is dropped.
C7_Witness ==
    /\ Filtered
    /\ filterCfg.Cidrs = {testCidr}
    /\ Len(inner.Endpoints) = 2
    /\ inner.Endpoints[1].RecordType = "CNAME" /\ inner.Endpoints[1].Target = targetInside
    /\ inner.Endpoints[2].RecordType = "A" /\ inner.Endpoints[2].Target = targetInside
    /\ filtered.Endpoints = <<inner.Endpoints[1]>>

\* The labels of the name end with the labels of one of the suffixes.
UnderBaseDomain(suffixes, name) ==
    \E k \in 1..Len(suffixes) :
        LET sl == LabelsOf(suffixes[k])
            nl == LabelsOf(name)
        IN Len(sl) <= Len(nl) /\ SubSeq(nl, Len(nl) - Len(sl) + 1, Len(nl)) = sl

\* C8: when at least one base-domain suffix is configured, a record is kept
\* if and only if its name ends with one of the suffixes at a label
\* boundary (cluster.example.org keeps foo.cluster.example.org and drops
\* foo.example.org and foo.bar.example.com); when no suffix is configured
\* the rule keeps every record.
C8_BaseDomainInclusion ==
    Filtered =>
        LET Kept(ep) ==
                filterCfg.DomainFilter # <<>> =>
                    UnderBaseDomain(filterCfg.DomainFilter, ep.DNSName)
        IN /\ \A k \in 1..Len(filtered.Endpoints) : Kept(filtered.Endpoints[k])
           /\ (filterCfg.Cidrs = {} /\ filterCfg.DNSIgnore = <<>>) =>
                 /\ filtered.Endpoints = SelectSeq(inner.Endpoints, Kept)
                 /\ filterCfg.DomainFilter = <<clusterExampleOrg>> =>
                       /\ FilteredNames \cap {fooExampleOrg, fooBarExampleCom} = {}
                       /\ InnerNames \cap {fooClusterExampleOrg} \subseteq FilteredNames

\* Under the suffix cluster.example.org, foo.cluster.example.org is kept and
\* foocluster.example.org, which ends with the suffix inside a label, is
\* dropped.
C8_Witness ==
    /\ Filtered
    /\ filterCfg = FilterConfig(<<clusterExampleOrg>>, {}, <<>>)
    /\ Len(inner.Endpoints) = 2
    /\ inner.Endpoints[1].DNSName = fooClusterExampleOrg
    /\ inner.Endpoints[2].DNSName = fooclusterExampleOrg
    /\ filtered.Endpoints = <<inner.Endpoints[1]>>

====
